---- MODULE Spec2Model ----
(***************************************************************************)
(* Model of the fan actuation engine of klipper_fan_tests (src/fan.py):    *)
(* Fan.set_speed, Fan.set_speed_from_command and the lookahead callback it *)
(* registers, FanTachometer.get_status / warning / shutdown, PrinterFan's  *)
(* add_fan, M106 and M107, and of the temperature fan                      *)
(* (src/temperature_fan.py).                                               *)
(*                                                                         *)
(* Numbers.  The source computes with Python floats.  The model uses       *)
(* integers: a duty d is the integer 1000*d (thousandths), a duration or a *)
(* time t is the integer 1000*t (milliseconds).  The grids the model draws *)
(* the inputs of Fan.set_speed from are chosen so that its products are    *)
(* whole thousandths: requested duties are multiples of 1/8 and max_power  *)
(* is 0.4, 0.8 or 1.0, so that both the rescaled three-wire duty           *)
(* (0.2 + 0.8 * value) and the four-wire duty, multiplied by max_power,    *)
(* are whole numbers and the integer division by Unit truncates nothing.   *)
(* Python's None is the integer -1, which no time or duty of the model     *)
(* takes; "truthy" is Python's truth test of a float-or-None.              *)
(***************************************************************************)
EXTENDS Integers, Sequences, FiniteSets, TLC

\* One second, and duty 1.0, in the model's integer units.
Unit == 1000

\* fan.py: FAN_MIN_TIME = 0.100
FAN_MIN_TIME == 100

None == 0 - 1

Truthy(x) == x /= None /\ x /= 0

Max(a, b) == IF a >= b THEN a ELSE b

Min(a, b) == IF a <= b THEN a ELSE b

(***************************************************************************)
(* Bounds of the model.                                                    *)
(***************************************************************************)
\* Requested print times are the multiples of 50 ms up to MaxTick * 50 ms.
MaxTick == 6

\* No command is scheduled later than MaxTime milliseconds.
MaxTime == 600

\* Tachometer samples are taken at whole seconds 1 .. MaxNow.
MaxNow == 8

\* add_fan is called with indices 0 .. MaxIndex.
MaxIndex == 3

\* Actuators other than the primary one are numbered 1 .. MaxFans.
MaxFans == 3

\* At most MaxPending lookahead callbacks wait for the toolhead at a time.
MaxPending == 2

Times == {50 * k : k \in 0 .. MaxTick}

\* Requested duties: the range 0..1 in eighths, and one value on either side of it
\* (set_speed itself accepts any float).
Duties == {0 - 250, 0, 125, 250, 500, 750, 1000, 1250}

MaxPowers == {400, 800, 1000}

OffBelows == {0, 250}

KickStartTimes == {0, 50, 200}

ClockTimes == {Unit * k : k \in 1 .. MaxNow}

\* Duties the commands of the tachometer runs request
CommandDuties == {0, 125, 500}

\* Pulse frequencies the counter reads, in Hz
Frequencies == {0, 10}

Pulses == {2}

LossIntervals == {1000, 2000}

RepeatIntervals == {0, 2000}

\* The S arguments of M106, in thousandths: 0, 0.5, 127.5, 255 and 510
SArgs == {0, 500, 127500, 255000, 510000}

\* The SPEED arguments of SET_FAN_SPEED
SpeedArgs == {0 - 250, 0, 500, 1500}

(***************************************************************************)
(* TemperatureFan: temperatures in thousandths of a degree, speeds in      *)
(* thousandths, times in milliseconds                                      *)
(***************************************************************************)
MAX_FAN_TIME == 5000

AMBIENT_TEMP == 25000

PID_PARAM_BASE == 255

\* min_temp, max_temp, target_temp and max_delta of the config section
min_temp == 10000

max_temp == 75000

target_temp_conf == 37000

max_delta == 12000

\* sensor.get_report_time_delta()
speed_delay == 250

\* pid_deriv_time
min_deriv_time == 2000

\* 1 / Kp for pid_Kp = 6.375, and pid_Kd.  Kp * temp_err is a whole number of
\* thousandths for every temp_err of whole degrees.
KpInverse == 40

pid_Kd == 0

\* The values of pid_Ki
PidKis == {0, 255}

\* The period of the sensor's reports, and the times of the runs of a temperature
\* fan: at most MaxReads periods
SamplePeriod == 2000

MaxReads == 3

ReadTimes == {SamplePeriod * k : k \in 1 .. MaxReads}

\* The temperatures the sensor reports: 12 degrees apart, which keeps the derivative
\* of the PID controller a whole number of thousandths
Temps == {13000, 25000, 37000, 49000, 61000}

\* The values of min_temp_cutoff of a bang-bang or PID controller
Cutoffs == {0, 30000}

\* The values of min_temp_cutoff of a slope controller, and the values of its option
\* 'slope'.  The curve runs from 25 (AMBIENT_TEMP) or 45 (the cutoff) to 60 degrees
\* (0.8 * max_temp): a range of 35 or 15 degrees, which a fifth divides, and 36 or 16
\* on the logarithmic curve's offset scale, which are squares.
SlopeCutoffs == {0, 45000}

SlopeAlgos == {"linear", "log", "exponential"}

\* The pairs of min_speed and max_speed of the config section, which reads the two
\* without comparing them
SpeedConfs == {<<250, 1000>>, <<750, 500>>}

\* The values of slicer_fan_number of a temperature fan
SlicerNumbers == {None, 0, 1}

\* The arguments of SET_TEMPERATURE_FAN_TARGET, None for one that is left out
TargetArgs == {None, 0, 49000, 200000}

MinSpeedArgs == {None, 750}

MaxSpeedArgs == {None, 500, 1500}

VARIABLES
    \* Fan: configuration
    pwm_fan, enable_pin, max_power, kick_start_time, off_below,
    \* the kind of config section that owns the fan, and its slicer_fan_number
    owner, slicer_fan_num,
    \* Fan: state
    last_fan_value, last_fan_time,
    \* the call the latest step made: [op, time, value]
    call,
    \* the hardware commands the latest step emitted, in order:
    \* [pin |-> "enable" | "pwm", time, value]
    out,
    \* the time of the latest command handed to the hardware, None before the first
    sent,
    \* the lookahead callbacks the command handlers have registered with the toolhead
    \* and the toolhead has not called yet, oldest first: the value each one will
    \* pass to Fan.set_speed
    pending,
    \* the latest PWM duty handed to the hardware, None before the first, and the
    \* latest level of the enable pin (low until a command raises it)
    hw_duty, pin_level,
    \* the time of the first sample of the present unbroken run of zero-RPM samples
    \* taken with the fan commanded on, None when there is no such run
    stall_since,
    \* TemperatureFan: configuration
    control, pid_Ki, slope, min_temp_cutoff, min_speed_conf, max_speed_conf,
    \* TemperatureFan: how far its set-up got, and its state
    built, target_temp, last_temp, next_speed_time, last_speed_value,
    min_speed, max_speed,
    \* ControlBangBang and ControlPID: state
    heating, prev_temp, prev_temp_time, prev_temp_deriv, prev_temp_integ,
    temp_integ_max,
    \* the error the latest operation raised ("none" if it returned), the speed the
    \* controller requested of TemperatureFan.set_speed in the latest step and the
    \* speed that call forwarded to Fan.set_speed (None when there was no such call)
    raised, req, fwd,
    \* FanTachometer: configuration
    has_tach, ppr, tach_loss_interval, tach_loss_action, warning_repeat_interval,
    \* FanTachometer: state
    tach_loss_time, last_warning_time, warning_issued,
    \* what the latest get_status did: the fault action was called, a warning was
    \* written to the console; and whether invoke_shutdown was ever called
    invoked, warned, is_shutdown,
    \* the time, in milliseconds, of the latest command or status request
    clock,
    \* PrinterFan: fan_list, and the latest add_fan call [index, fan, raised]
    fan_list, reg_call

fan_cfg == <<pwm_fan, enable_pin, max_power, kick_start_time, off_below,
             owner, slicer_fan_num>>

fan_state == <<last_fan_value, last_fan_time>>

tach_cfg == <<has_tach, ppr, tach_loss_interval, tach_loss_action,
              warning_repeat_interval>>

tach_state == <<tach_loss_time, last_warning_time, warning_issued>>

tach_out == <<invoked, warned, is_shutdown>>

tach_vars == <<tach_cfg, tach_state, tach_out, stall_since, clock>>

reg_vars == <<fan_list, reg_call>>

sink == <<sent, hw_duty, pin_level>>

temp_cfg == <<control, pid_Ki, slope, min_temp_cutoff, min_speed_conf,
              max_speed_conf>>

temp_state == <<target_temp, last_temp, next_speed_time, last_speed_value,
                min_speed, max_speed>>

control_state == <<heating, prev_temp, prev_temp_time, prev_temp_deriv,
                   prev_temp_integ, temp_integ_max>>

temp_vars == <<temp_cfg, built, temp_state, control_state, raised, req, fwd>>

vars == <<fan_cfg, fan_state, call, out, sink, pending, tach_vars, reg_vars,
          temp_vars>>

(***************************************************************************)
(* Fan.set_speed                                                           *)
(***************************************************************************)
Rescale_NoCollapse(four_wire, value) ==
    IF ~four_wire THEN 200 + (800 * value) \div Unit ELSE value

\* fan.py 86-95: a fan without built-in PWM circuitry never gets a duty in (0, 0.2].
Rescale(four_wire, value) ==
    IF ~four_wire
    THEN LET fan_speed == 200 + (800 * value) \div Unit
         IN  IF fan_speed <= 200 THEN 0 ELSE fan_speed
    ELSE value

OffBelow_Inclusive(value, offb, fan_speed) == IF value <= offb THEN 0 ELSE fan_speed

\* fan.py 96-97
OffBelow(value, offb, fan_speed) == IF value < offb THEN 0 ELSE fan_speed

Clamp_NoCap(fan_speed, maxp) == Max(0, (fan_speed * maxp) \div Unit)

\* fan.py 98
Clamp(fan_speed, maxp) == Max(0, Min(maxp, (fan_speed * maxp) \div Unit))

\* fan.py 86-98: the duty of the final PWM command
FanSpeed(four_wire, value, offb, maxp) ==
    Clamp(OffBelow(value, offb, Rescale(four_wire, value)), maxp)

Suppressed_OnlyWhenOff(value, last) == value = last /\ value = 0

\* fan.py 99
Suppressed(value, last) == value = last

ScheduledTime_NoSpacing(last_time, print_time) == Max(last_time, print_time)

\* fan.py 101
ScheduledTime(last_time, print_time) == Max(last_time + FAN_MIN_TIME, print_time)

EnableCmds_EveryNonzero(has_pin, value, last, print_time) ==
    IF has_pin /\ value > 0
    THEN <<[pin |-> "enable", time |-> print_time, value |-> 1]>>
    ELSE IF has_pin /\ value = 0 /\ last > 0
    THEN <<[pin |-> "enable", time |-> print_time, value |-> 0]>>
    ELSE <<>>

\* fan.py 102-106: the enable-pin command of a call, if any
EnableCmds(has_pin, value, last, print_time) ==
    IF has_pin /\ value > 0 /\ last = 0
    THEN <<[pin |-> "enable", time |-> print_time, value |-> 1]>>
    ELSE IF has_pin /\ value = 0 /\ last > 0
    THEN <<[pin |-> "enable", time |-> print_time, value |-> 0]>>
    ELSE <<>>

KickStart_Inclusive(fan_speed, maxp, kst, last) ==
    /\ fan_speed /= 0
    /\ fan_speed < maxp
    /\ kst /= 0
    /\ (last = 0 \/ fan_speed - last >= 500)

\* fan.py 107-108
KickStart(fan_speed, maxp, kst, last) ==
    /\ fan_speed /= 0
    /\ fan_speed < maxp
    /\ kst /= 0
    /\ (last = 0 \/ fan_speed - last > 500)

\* fan.py 107-112: the PWM commands of a call
PwmCmds(fan_speed, maxp, kst, last, print_time) ==
    IF KickStart(fan_speed, maxp, kst, last)
    THEN <<[pin |-> "pwm", time |-> print_time, value |-> maxp],
           [pin |-> "pwm", time |-> print_time + kst, value |-> fan_speed]>>
    ELSE <<[pin |-> "pwm", time |-> print_time, value |-> fan_speed]>>

\* fan.py 84-115: every command a call emits
SetSpeedCmds(print_time, value) ==
    IF Suppressed(value, last_fan_value)
    THEN <<>>
    ELSE LET fan_speed == FanSpeed(pwm_fan, value, off_below, max_power)
             pt == ScheduledTime(last_fan_time, print_time)
         IN  EnableCmds(enable_pin, value, last_fan_value, pt)
             \o PwmCmds(fan_speed, max_power, kick_start_time, last_fan_value, pt)

\* fan.py 84-115
set_speed(print_time, value) ==
    LET cmds == SetSpeedCmds(print_time, value)
    IN  /\ out' = cmds
        /\ sent' = IF cmds = <<>> THEN sent ELSE cmds[Len(cmds)].time
        /\ hw_duty' = IF cmds = <<>> THEN hw_duty ELSE cmds[Len(cmds)].value
        /\ pin_level' = IF cmds /= <<>> /\ cmds[1].pin = "enable"
                        THEN cmds[1].value
                        ELSE pin_level
        /\ IF cmds = <<>>
           THEN UNCHANGED fan_state
           ELSE /\ last_fan_time' = cmds[Len(cmds)].time
                /\ last_fan_value' = value

SetSpeed ==
    \E print_time \in Times, value \in Duties :
        /\ ScheduledTime(last_fan_time, print_time) + kick_start_time <= MaxTime
        /\ set_speed(print_time, value)
        /\ call' = [op |-> "set_speed", time |-> print_time, value |-> value]
        /\ UNCHANGED <<fan_cfg, pending, tach_vars, reg_vars, temp_vars>>

\* fan.py 84-115 with the duties that are not negative
SetSpeedNonNegative ==
    \E print_time \in Times, value \in {d \in Duties : d >= 0} :
        /\ ScheduledTime(last_fan_time, print_time) + kick_start_time <= MaxTime
        /\ set_speed(print_time, value)
        /\ call' = [op |-> "set_speed", time |-> print_time, value |-> value]
        /\ UNCHANGED <<fan_cfg, pending, tach_vars, reg_vars, temp_vars>>

\* fan.py 120-121: the handler of gcode:request_restart
Restart ==
    \E print_time \in Times :
        /\ ScheduledTime(last_fan_time, print_time) + kick_start_time <= MaxTime
        /\ set_speed(print_time, 0)
        /\ call' = [op |-> "restart", time |-> print_time, value |-> 0]
        /\ UNCHANGED <<fan_cfg, pending, tach_vars, reg_vars, temp_vars>>

\* fan.py 116-119: set_speed_from_command hands the toolhead one callback for each
\* requested value and returns; the fan's state and the hardware are untouched
set_speed_from_command(values) ==
    /\ Len(pending) + Len(values) <= MaxPending
    /\ pending' = pending \o values
    /\ out' = <<>>
    /\ UNCHANGED <<fan_state, sink>>

\* fan.py 116-119, called with a value at time t
SetSpeedFromCommand ==
    \E t \in ClockTimes, value \in CommandDuties :
        /\ t > clock
        /\ clock' = t
        /\ set_speed_from_command(<<value>>)
        /\ call' = [op |-> "set_speed_from_command", time |-> t, value |-> value]
        /\ UNCHANGED <<fan_cfg, tach_cfg, tach_state, tach_out, stall_since, reg_vars,
                       temp_vars>>

\* fan.py 118-119: the callback, lambda pt: self.set_speed(pt, value), called with
\* the print time pt = t
lookahead_callback(t, value) ==
    /\ set_speed(t, value)
    /\ call' = [op |-> "set_speed", time |-> t, value |-> value]
    /\ stall_since' = IF value <= 0 THEN None ELSE stall_since

\* The toolhead's lookahead queue, which is outside the fan's code: it calls the
\* callbacks in the order they were registered, each with a print time later than
\* that of every earlier callback, command and sample
LookaheadCallback ==
    \E t \in ClockTimes :
        /\ pending /= <<>>
        /\ t > clock
        /\ clock' = t
        /\ lookahead_callback(t, Head(pending))
        /\ pending' = Tail(pending)
        /\ UNCHANGED <<fan_cfg, tach_cfg, tach_state, tach_out, reg_vars, temp_vars>>

(***************************************************************************)
(* FanTachometer                                                           *)
(***************************************************************************)
\* fan.py 202
Rpm(freq, pulses) == (freq * 30) \div pulses

\* fan.py 204-205: the loss time after the reset on a tach signal
LossTimeAfterReset(rpm, loss_time) ==
    IF rpm > 0 /\ Truthy(loss_time) THEN None ELSE loss_time

TachLost_IgnoreFan(rpm, fan_value) == rpm = 0

\* fan.py 206
TachLost(rpm, fan_value) == rpm = 0 /\ fan_value > 0

\* fan.py 206-209: the loss time a sample leaves
NextLossTime(rpm, fan_value, loss_time, eventtime) ==
    LET t == LossTimeAfterReset(rpm, loss_time)
    IN  IF TachLost(rpm, fan_value) /\ ~Truthy(t) THEN eventtime ELSE t

FaultInvoked_AtBoundary(rpm, fan_value, loss_time, eventtime, interval) ==
    LET t == LossTimeAfterReset(rpm, loss_time)
    IN  /\ TachLost(rpm, fan_value)
        /\ Truthy(t)
        /\ eventtime - t >= interval

\* fan.py 206-211: the sample calls tach_loss_action
FaultInvoked(rpm, fan_value, loss_time, eventtime, interval) ==
    LET t == LossTimeAfterReset(rpm, loss_time)
    IN  /\ TachLost(rpm, fan_value)
        /\ Truthy(t)
        /\ eventtime - t > interval

\* fan.py 189-194: warning() writes the warning
WarningEmitted(eventtime, repeat_interval, issued, last_warning) ==
    /\ ~(repeat_interval = 0 /\ issued)
    /\ (~Truthy(last_warning) \/ eventtime - last_warning >= repeat_interval)

\* fan.py 188-198
warning(eventtime) ==
    LET emit == WarningEmitted(eventtime, warning_repeat_interval, warning_issued,
                               last_warning_time)
    IN  /\ warned' = emit
        /\ last_warning_time' = IF emit THEN eventtime ELSE last_warning_time
        /\ UNCHANGED <<warning_issued, is_shutdown>>

\* fan.py 183-186
shutdown(eventtime) ==
    /\ is_shutdown' = TRUE
    /\ warned' = FALSE
    /\ UNCHANGED <<last_warning_time, warning_issued>>

\* fan.py 200-214
get_status(eventtime, freq) ==
    IF has_tach
    THEN LET rpm == Rpm(freq, ppr)
         IN  /\ tach_loss_time' =
                    NextLossTime(rpm, last_fan_value, tach_loss_time, eventtime)
             /\ invoked' = FaultInvoked(rpm, last_fan_value, tach_loss_time,
                                        eventtime, tach_loss_interval)
             /\ IF invoked' /\ tach_loss_action = "shutdown"
                THEN shutdown(eventtime)
                ELSE IF invoked' /\ tach_loss_action = "warning"
                THEN warning(eventtime)
                ELSE /\ warned' = FALSE
                     /\ UNCHANGED <<last_warning_time, warning_issued, is_shutdown>>
    ELSE /\ invoked' = FALSE
         /\ warned' = FALSE
         /\ UNCHANGED <<tach_state, is_shutdown>>

\* Fan.get_status, fan.py 123-128, polled at a later time with the frequency the
\* counter reads then
GetStatus ==
    \E t \in ClockTimes, freq \in Frequencies :
        /\ t > clock
        /\ clock' = t
        /\ get_status(t, freq)
        /\ call' = [op |-> "get_status", time |-> t, value |-> freq]
        /\ out' = <<>>
        /\ stall_since' = IF Rpm(freq, ppr) = 0 /\ last_fan_value > 0
                          THEN IF stall_since = None THEN t ELSE stall_since
                          ELSE None
        /\ UNCHANGED <<fan_cfg, fan_state, sink, pending, tach_cfg, reg_vars,
                       temp_vars>>

(***************************************************************************)
(* PrinterFan.add_fan                                                      *)
(***************************************************************************)
\* fan.py 260-267: the error add_fan raises, if any
AddFanError(list, fan_number) ==
    IF fan_number \in DOMAIN list
    THEN IF fan_number = 0 THEN "reserved" ELSE "duplicate"
    ELSE "none"

AddFanList_Overwrite(list, fan_number, fan) ==
    [i \in DOMAIN list \cup {fan_number} |-> IF i = fan_number THEN fan ELSE list[i]]

\* fan.py 259-269: fan_list after the call
AddFanList(list, fan_number, fan) ==
    IF fan_number \in DOMAIN list
    THEN list
    ELSE [i \in DOMAIN list \cup {fan_number} |->
             IF i = fan_number THEN fan ELSE list[i]]

AddFan ==
    \E fan_number \in 0 .. MaxIndex, fan \in 1 .. MaxFans :
        /\ fan_list' = AddFanList(fan_list, fan_number, fan)
        /\ reg_call' = [index |-> fan_number, fan |-> fan,
                        raised |-> AddFanError(fan_list, fan_number)]
        /\ UNCHANGED <<fan_cfg, fan_state, call, out, sink, pending, tach_vars,
                       temp_vars>>

(***************************************************************************)
(* The speed commands: M106, M107 and SET_FAN_SPEED                        *)
(***************************************************************************)
\* fan.py 16 and 50: a section name of two words binds SET_FAN_SPEED
Named(section) == section /= "fan"

\* The fan of [fan] is fan 0 of the registry's values; the modelled fan of another
\* section is fan 1.
SelfId(section) == IF section = "fan" THEN 0 ELSE 1

\* fan.py 233 and 243-247: the duty M106 requests for its S argument
M106Value(s) == IF 0 < s /\ s < Unit THEN s ELSE s \div 255

\* fan.py 236-237 and 253-254: the command names a fan number that is not registered
InvalidFanNumber(list, fan_number) == fan_number \notin DOMAIN list

\* fan.py 242-247: the values M106 passes to set_speed_from_command, in order.  For
\* 0 < S < 1 it passes S twice: once in the branch and once after it.
M106Requests(s) == IF 0 < s /\ s < Unit THEN <<s, s>> ELSE <<s \div 255>>

\* fan.py 224-227: PrinterFan.__init__ binds a command when the tested name is not
\* among the handlers yet; gcode.register_command enters the command it binds
RegisterUnless(handlers, tested, name) ==
    IF tested \notin handlers THEN handlers \cup {name} ELSE handlers

\* fan.py 224-227: the handlers after PrinterFan.__init__.  Both tests name "M106",
\* so the second finds it bound and M107 is not bound.
ready_gcode_handlers ==
    RegisterUnless(RegisterUnless({}, "M106", "M106"), "M106", "M107")

\* A command that does not reach the modelled fan
no_set_speed ==
    /\ out' = <<>>
    /\ UNCHANGED <<fan_state, sink, pending>>

\* fan.py 224-225 and 231-248: M106 S<s> T<fan_number> at time t
CmdM106 ==
    \E t \in ClockTimes, s \in SArgs, fan_number \in 0 .. MaxIndex :
        /\ t > clock
        /\ clock' = t
        /\ IF "M106" \notin ready_gcode_handlers
           THEN /\ no_set_speed
                /\ call' = [op |-> "unknown", time |-> t, value |-> 0]
           ELSE IF InvalidFanNumber(fan_list, fan_number)
           THEN /\ no_set_speed
                /\ call' = [op |-> "invalid", time |-> t, value |-> fan_number]
           ELSE /\ IF fan_list[fan_number] = SelfId(owner)
                   THEN set_speed_from_command(M106Requests(s))
                   ELSE no_set_speed
                /\ call' = [op |-> "M106", time |-> t, value |-> M106Value(s)]
        /\ UNCHANGED <<fan_cfg, tach_cfg, tach_state, tach_out, stall_since, reg_vars,
                       temp_vars>>

\* fan.py 226-227 and 249-257: M107 T<fan_number> at time t.  The command is not
\* bound, so the printer answers that it is unknown and cmd_M107 does not run.
CmdM107 ==
    \E t \in ClockTimes, fan_number \in 0 .. MaxIndex :
        /\ t > clock
        /\ clock' = t
        /\ IF "M107" \notin ready_gcode_handlers
           THEN /\ no_set_speed
                /\ call' = [op |-> "unknown", time |-> t, value |-> 0]
           ELSE IF InvalidFanNumber(fan_list, fan_number)
           THEN /\ no_set_speed
                /\ call' = [op |-> "invalid", time |-> t, value |-> fan_number]
           ELSE /\ IF fan_list[fan_number] = SelfId(owner)
                   THEN set_speed_from_command(<<0>>)
                   ELSE no_set_speed
                /\ call' = [op |-> "M107", time |-> t, value |-> 0]
        /\ UNCHANGED <<fan_cfg, tach_cfg, tach_state, tach_out, stall_since, reg_vars,
                       temp_vars>>

\* fan.py 50-55 and 80-82: SET_FAN_SPEED FAN=<name> SPEED=<speed>, bound for a named
\* section only
CmdSetFanSpeed ==
    \E t \in ClockTimes, speed \in SpeedArgs :
        /\ Named(owner)
        /\ t > clock
        /\ clock' = t
        /\ set_speed_from_command(<<speed>>)
        /\ call' = [op |-> "SET_FAN_SPEED", time |-> t, value |-> speed]
        /\ UNCHANGED <<fan_cfg, tach_cfg, tach_state, tach_out, stall_since, reg_vars,
                       temp_vars>>

(***************************************************************************)
(* TemperatureFan                                                          *)
(***************************************************************************)
Abs(x) == IF x < 0 THEN 0 - x ELSE x

\* temperature_fan.py 62 with 183-195 and 232-235: the controller's constructor runs
\* before max_speed and min_speed of the TemperatureFan exist (66-72); the PID
\* constructor reads get_max_speed() when Ki is not zero, the slope constructor
\* reads min_speed
ControlInitError(algo, ki) ==
    IF algo = "slope" \/ (algo = "pid" /\ ki /= 0)
    THEN "AttributeError"
    ELSE "none"

\* temperature_fan.py 24-81 and fan.py 11-56: the constructor
Construct ==
    /\ built = "new"
    /\ call' = [op |-> "construct", time |-> 0, value |-> 0]
    /\ target_temp' = target_temp_conf
    /\ last_temp' = 0
    /\ IF ControlInitError(control, pid_Ki) /= "none"
       THEN /\ raised' = ControlInitError(control, pid_Ki)
            /\ built' = "failed"
            /\ UNCHANGED <<next_speed_time, last_speed_value, min_speed, max_speed,
                           control_state, fan_list>>
       ELSE /\ heating' = FALSE
            /\ IF control = "pid"
               THEN /\ temp_integ_max' = 0
                    /\ prev_temp' = AMBIENT_TEMP
                    /\ prev_temp_time' = 0
                    /\ prev_temp_deriv' = 0
                    /\ prev_temp_integ' = 0
               ELSE UNCHANGED <<prev_temp, prev_temp_time, prev_temp_deriv,
                                prev_temp_integ, temp_integ_max>>
            /\ next_speed_time' = 0
            /\ last_speed_value' = 0
            /\ max_speed' = max_speed_conf
            /\ min_speed' = min_speed_conf
            /\ IF slicer_fan_num = None
               THEN /\ raised' = "none"
                    /\ built' = "constructed"
                    /\ UNCHANGED fan_list
               ELSE /\ fan_list' = AddFanList(fan_list, slicer_fan_num, SelfId(owner))
                    /\ IF AddFanError(fan_list, slicer_fan_num) = "none"
                       THEN raised' = "none" /\ built' = "constructed"
                       ELSE raised' = "config_error" /\ built' = "failed"
    /\ req' = None
    /\ fwd' = None
    /\ UNCHANGED <<fan_cfg, fan_state, out, sink, pending, tach_vars, reg_call,
                   temp_cfg>>

\* fan.py 58-73: Fan.handle_connect of the temperature fan's actuator, which
\* registers the fan under its slicer_fan_number once more
Connect ==
    /\ built = "constructed"
    /\ call' = [op |-> "connect", time |-> 0, value |-> 0]
    /\ IF slicer_fan_num = None
       THEN /\ raised' = "none"
            /\ built' = "connected"
            /\ UNCHANGED fan_list
       ELSE /\ fan_list' = AddFanList(fan_list, slicer_fan_num, SelfId(owner))
            /\ IF AddFanError(fan_list, slicer_fan_num) = "none"
               THEN raised' = "none" /\ built' = "connected"
               ELSE raised' = "config_error" /\ built' = "failed"
    /\ req' = None
    /\ fwd' = None
    /\ UNCHANGED <<fan_cfg, fan_state, out, sink, pending, tach_vars, reg_call,
                   temp_cfg, temp_state, control_state>>

\* temperature_fan.py 84-89: the speed TemperatureFan.set_speed makes of a request
TfValue(value, target, floor) ==
    IF target <= 0 \/ value <= 0
    THEN 0
    ELSE IF value < floor THEN floor ELSE value

\* temperature_fan.py 90-93: no significant change, the update is suppressed
TfSuppressed(read_time, value, next_time, last) ==
    /\ read_time < next_time \/ ~Truthy(last)
    /\ Abs(value - last) < 50

\* temperature_fan.py 83-97: TemperatureFan.set_speed with the target temperature
\* of the moment of the call
tf_set_speed(read_time, value, target) ==
    LET v == TfValue(value, target, min_speed)
    IN  /\ req' = value
        /\ IF TfSuppressed(read_time, v, next_speed_time, last_speed_value)
           THEN /\ fwd' = None
                /\ no_set_speed
                /\ UNCHANGED <<next_speed_time, last_speed_value>>
           ELSE /\ fwd' = v
                /\ next_speed_time' =
                        read_time + speed_delay + (3 * MAX_FAN_TIME) \div 4
                /\ last_speed_value' = v
                /\ set_speed(read_time + speed_delay, v)

BangBangHeating_NoBand(flag, temp, target, delta) ==
    IF flag /\ temp >= target THEN FALSE
    ELSE IF ~flag /\ temp <= target THEN TRUE
    ELSE flag

\* temperature_fan.py 163-168: the heating flag after a sample at or above the cutoff
BangBangHeating(flag, temp, target, delta) ==
    IF flag /\ temp >= target + delta THEN FALSE
    ELSE IF ~flag /\ temp <= target - delta THEN TRUE
    ELSE flag

BelowCutoff_WithBand(temp, cutoff) == temp < cutoff - max_delta

\* temperature_fan.py 159 and 197: the sample is below min_temp_cutoff
BelowCutoff(temp, cutoff) == temp < cutoff

\* temperature_fan.py 158-173: ControlBangBang.temperature_callback
bang_bang_callback(read_time, temp) ==
    IF BelowCutoff(temp, min_temp_cutoff)
    THEN /\ tf_set_speed(read_time, 0, target_temp)
         /\ UNCHANGED heating
    ELSE /\ heating' = BangBangHeating(heating, temp, target_temp, max_delta)
         /\ tf_set_speed(read_time, IF heating' THEN 0 ELSE max_speed, target_temp)

\* temperature_fan.py 203-208: the derivative, in thousandths of a degree per second
PidDeriv(temp, time_diff) ==
    IF time_diff >= min_deriv_time
    THEN ((temp - prev_temp) * 1000) \div time_diff
    ELSE (prev_temp_deriv * (min_deriv_time - time_diff) + (temp - prev_temp) * 1000)
            \div min_deriv_time

\* temperature_fan.py 210-212: the integral, clamped to [0, temp_integ_max]
PidInteg(temp, time_diff) ==
    Max(0, Min(temp_integ_max,
               prev_temp_integ + ((target_temp - temp) * time_diff) \div 1000))

\* temperature_fan.py 214: co = Kp*temp_err + Ki*temp_integ - Kd*temp_deriv
PidCo(temp, time_diff) ==
    (target_temp - temp) \div KpInverse
        + (pid_Ki * PidInteg(temp, time_diff)) \div PID_PARAM_BASE
        - (pid_Kd * PidDeriv(temp, time_diff)) \div PID_PARAM_BASE

\* temperature_fan.py 215: bounded_co
PidBounded(co) == Max(0, Min(max_speed, co))

\* temperature_fan.py 196-224: ControlPID.temperature_callback
pid_callback(read_time, temp) ==
    IF BelowCutoff(temp, min_temp_cutoff)
    THEN /\ tf_set_speed(read_time, 0, target_temp)
         /\ UNCHANGED <<prev_temp, prev_temp_time, prev_temp_deriv, prev_temp_integ>>
    ELSE LET time_diff == read_time - prev_temp_time
             co == PidCo(temp, time_diff)
         IN  /\ tf_set_speed(read_time, Max(min_speed, max_speed - PidBounded(co)),
                             target_temp)
             /\ prev_temp' = temp
             /\ prev_temp_time' = read_time
             /\ prev_temp_deriv' = PidDeriv(temp, time_diff)
             /\ prev_temp_integ' = IF co = PidBounded(co)
                                   THEN PidInteg(temp, time_diff)
                                   ELSE prev_temp_integ

\* temperature_fan.py 252-255: the side of the hysteresis band around the cutoff
SlopeBand(temp, cutoff) ==
    IF temp < cutoff - 500 THEN "off"
    ELSE IF temp > cutoff + 500 THEN "curve"
    ELSE "hold"

\* temperature_fan.py 236 and 240-249: the ends of the slope's range
SlopeMinTemp ==
    IF min_temp < AMBIENT_TEMP \/ min_temp < min_temp_cutoff
    THEN IF min_temp_cutoff > AMBIENT_TEMP THEN min_temp_cutoff ELSE AMBIENT_TEMP
    ELSE min_temp

SlopeMaxTemp == (max_temp * 8) \div 10

\* temperature_fan.py 267-270, 281-284 and 290-293: a curve requests its speed when
\* that is above the min_speed the constructor read, the floor, and the floor otherwise
SlopeFloor(speed, floor) == IF speed > floor THEN speed ELSE floor

\* temperature_fan.py 262-270: the linear curve
SlopeLinear(temp, floor) ==
    LET speed == ((max_speed - min_speed) * (temp - SlopeMinTemp))
                    \div (SlopeMaxTemp - SlopeMinTemp)
    IN  SlopeFloor(speed, floor)

RECURSIVE WholeLog(_, _)
\* The k with b^k = x for whole b >= 2 and x >= 1, None when x is no power of b
WholeLog(b, x) ==
    IF x = 1 THEN 0
    ELSE IF x % b /= 0 THEN None
    ELSE IF WholeLog(b, x \div b) = None THEN None
    ELSE WholeLog(b, x \div b) + 1

\* temperature_fan.py 278: math.log(x) / math.log(y) as the fraction
\* <<numerator, denominator>>, for whole x >= 1 and y >= 2 that are powers of one
\* whole base; the quotient is the same for every such base
LogRatio(x, y) ==
    LET b == CHOOSE c \in 2 .. y : WholeLog(c, y) /= None /\ WholeLog(c, x) /= None
    IN  <<WholeLog(b, x), WholeLog(b, y)>>

\* temperature_fan.py 272-284: the logarithmic curve, its offsets in whole degrees
SlopeLog(temp, floor) ==
    LET offset_max_temp == (SlopeMaxTemp - SlopeMinTemp) \div 1000 + 1
        offset_temp == (temp - SlopeMinTemp) \div 1000 + 1
        normalized_temp == LogRatio(offset_temp, offset_max_temp)
        speed == ((max_speed - min_speed) * normalized_temp[1])
                    \div normalized_temp[2]
    IN  SlopeFloor(speed, floor)

\* temperature_fan.py 285-293: the exponential curve, normalized_temp ** 2, one
\* factor normalized_temp at a time, which keeps the products within 32 bits; each
\* quotient is whole on the fifths of the range
SlopeExponential(temp, floor) ==
    LET range == SlopeMaxTemp - SlopeMinTemp
        once == ((max_speed - min_speed) * (temp - SlopeMinTemp)) \div range
        speed == (once * (temp - SlopeMinTemp)) \div range
    IN  SlopeFloor(speed, floor)

\* temperature_fan.py 238-239: self.algo, the curve the option 'slope' selects
SlopeAlgo(temp, floor) ==
    CASE slope = "linear" -> SlopeLinear(temp, floor)
      [] slope = "log" -> SlopeLog(temp, floor)
      [] OTHER -> SlopeExponential(temp, floor)

\* temperature_fan.py 251-260: ControlSlope.temperature_callback
slope_callback(read_time, temp) ==
    LET clamped == Max(SlopeMinTemp, Min(temp, SlopeMaxTemp))
        target == (clamped \div 100) * 100
    IN  CASE SlopeBand(temp, min_temp_cutoff) = "off" ->
                /\ tf_set_speed(read_time, 0, target_temp)
                /\ UNCHANGED target_temp
          [] SlopeBand(temp, min_temp_cutoff) = "curve" ->
                /\ target_temp' = target
                /\ tf_set_speed(read_time, SlopeAlgo(clamped, min_speed_conf), target)
          [] OTHER ->
                /\ req' = None
                /\ fwd' = None
                /\ no_set_speed
                /\ UNCHANGED <<target_temp, next_speed_time, last_speed_value>>

\* The temperatures the sensor reports to a slope controller: 12 degrees below the
\* cutoff, the cutoff, 13 degrees, 12 degrees above the curve's range and, within
\* the range, its fifths or, for the logarithmic curve, its ends and the point
\* whose offset is the square root of the range's
SlopeTemps ==
    LET range == SlopeMaxTemp - SlopeMinTemp
        root == CHOOSE r \in 1 .. range \div 1000 + 1 : r * r = range \div 1000 + 1
    IN  {min_temp_cutoff - 12000, min_temp_cutoff, 13000, SlopeMaxTemp + 12000}
            \cup IF slope = "log"
                 THEN {SlopeMinTemp, SlopeMinTemp + (root - 1) * 1000, SlopeMaxTemp}
                 ELSE {SlopeMinTemp + (k * range) \div 5 : k \in 0 .. 5}

\* The temperatures the sensor reports to the controller of the section
SampleTemps == IF control = "slope" THEN SlopeTemps ELSE Temps

\* temperature_fan.py 98-100: the sensor reports temp at read_time
TemperatureCallback ==
    \E t \in ReadTimes, temp \in SampleTemps :
        /\ built = "connected"
        /\ t > clock
        /\ clock' = t
        /\ last_temp' = temp
        /\ call' = [op |-> "sample", time |-> t, value |-> temp]
        /\ raised' = "none"
        /\ CASE control = "watermark" ->
                   /\ bang_bang_callback(t, temp)
                   /\ UNCHANGED <<target_temp, prev_temp, prev_temp_time,
                                  prev_temp_deriv, prev_temp_integ>>
             [] control = "pid" ->
                   /\ pid_callback(t, temp)
                   /\ UNCHANGED <<target_temp, heating>>
             [] OTHER ->
                   /\ slope_callback(t, temp)
                   /\ UNCHANGED <<heating, prev_temp, prev_temp_time,
                                  prev_temp_deriv, prev_temp_integ>>
        /\ UNCHANGED <<fan_cfg, pending, tach_cfg, tach_state, tach_out, stall_since,
                       reg_vars, temp_cfg, built, min_speed, max_speed,
                       temp_integ_max>>

\* temperature_fan.py 127-132: set_temp raises
SetTempError(degrees) == Truthy(degrees) /\ (degrees < min_temp \/ degrees > max_temp)

\* temperature_fan.py 134-146: set_min_speed and set_max_speed raise
SetSpeedBoundError(speed) == Truthy(speed) /\ (speed < 0 \/ speed > Unit)

\* temperature_fan.py 115-125: SET_TEMPERATURE_FAN_TARGET.  The handler assigns the
\* target before it compares the speeds, and min_speed before it checks max_speed.
CmdSetTemperatureFanTarget ==
    \E t \in ReadTimes, target \in TargetArgs,
       min_arg \in MinSpeedArgs, max_arg \in MaxSpeedArgs :
        LET temp == IF target = None THEN target_temp_conf ELSE target
            mins == IF min_arg = None THEN min_speed ELSE min_arg
            maxs == IF max_arg = None THEN max_speed ELSE max_arg
        IN  /\ built = "connected"
            /\ t > clock
            /\ clock' = t
            /\ call' = [op |-> "target", time |-> t, value |-> temp]
            /\ IF SetTempError(temp)
               THEN /\ raised' = "command_error"
                    /\ UNCHANGED <<target_temp, min_speed, max_speed>>
               ELSE /\ target_temp' = temp
                    /\ IF mins > maxs
                       THEN /\ raised' = "command_error"
                            /\ UNCHANGED <<min_speed, max_speed>>
                       ELSE IF SetSpeedBoundError(mins)
                       THEN /\ raised' = "command_error"
                            /\ UNCHANGED <<min_speed, max_speed>>
                       ELSE /\ min_speed' = mins
                            /\ IF SetSpeedBoundError(maxs)
                               THEN raised' = "command_error" /\ UNCHANGED max_speed
                               ELSE raised' = "none" /\ max_speed' = maxs
            /\ req' = None
            /\ fwd' = None
            /\ no_set_speed
            /\ UNCHANGED <<fan_cfg, tach_cfg, tach_state, tach_out, stall_since,
                           reg_vars, temp_cfg, built, last_temp, next_speed_time,
                           last_speed_value, control_state>>

\* fan.py 50-55 and 80-82: SET_FAN_SPEED FAN=<name>, which Fan.__init__ binds for the
\* actuator of a temperature fan as for any section with a name of two words
DirectSetFanSpeed ==
    \E t \in ReadTimes, speed \in SpeedArgs :
        /\ built = "connected"
        /\ Named(owner)
        /\ t > clock
        /\ clock' = t
        /\ set_speed_from_command(<<speed>>)
        /\ call' = [op |-> "SET_FAN_SPEED", time |-> t, value |-> speed]
        /\ raised' = "none"
        /\ req' = None
        /\ fwd' = None
        /\ UNCHANGED <<fan_cfg, tach_cfg, tach_state, tach_out, stall_since, reg_vars,
                       temp_cfg, built, temp_state, control_state>>

\* The toolhead's lookahead queue calls the oldest callback registered for the
\* temperature fan's actuator, at one of the times the sensor reports at
DirectLookaheadCallback ==
    \E t \in ReadTimes :
        /\ pending /= <<>>
        /\ t > clock
        /\ clock' = t
        /\ lookahead_callback(t, Head(pending))
        /\ pending' = Tail(pending)
        /\ raised' = "none"
        /\ req' = None
        /\ fwd' = None
        /\ UNCHANGED <<fan_cfg, tach_cfg, tach_state, tach_out, reg_vars, temp_cfg,
                       built, temp_state, control_state>>

(***************************************************************************)
(* Initial states                                                          *)
(***************************************************************************)
\* Fan.__init__, fan.py 14-15 and 20-43
FanInit ==
    /\ last_fan_value = 0
    /\ last_fan_time = 0
    /\ enable_pin \in BOOLEAN
    /\ pwm_fan = enable_pin
    /\ call = [op |-> "init", time |-> 0, value |-> 0]
    /\ out = <<>>
    /\ pending = <<>>
    /\ sent = None
    /\ hw_duty = None
    /\ pin_level = 0

\* The fan of the [fan] section, fan.py 218: one word of name, no slicer_fan_number
PrimaryFan ==
    /\ owner = "fan"
    /\ slicer_fan_num = None

\* A printer without a [temperature_fan] section
NoTemperatureFan ==
    /\ control = "none"
    /\ pid_Ki = None
    /\ slope = "none"
    /\ min_temp_cutoff = None
    /\ min_speed_conf = None
    /\ max_speed_conf = None
    /\ built = "none"
    /\ target_temp = None
    /\ last_temp = None
    /\ next_speed_time = None
    /\ last_speed_value = None
    /\ min_speed = None
    /\ max_speed = None
    /\ heating = FALSE
    /\ prev_temp = None
    /\ prev_temp_time = None
    /\ prev_temp_deriv = None
    /\ prev_temp_integ = None
    /\ temp_integ_max = None
    /\ raised = "none"
    /\ req = None
    /\ fwd = None

\* FanTachometer.__init__ without a tachometer_pin, fan.py 135-143 and 166-167
NoTach ==
    /\ has_tach = FALSE
    /\ ppr = None
    /\ tach_loss_interval = None
    /\ warning_repeat_interval = None
    /\ tach_loss_action = "none"
    /\ tach_loss_time = None
    /\ last_warning_time = 0
    /\ warning_issued = FALSE
    /\ invoked = FALSE
    /\ warned = FALSE
    /\ is_shutdown = FALSE
    /\ stall_since = None
    /\ clock = 0

\* PrinterFan.__init__, fan.py 218-220: the primary fan is actuator 0
RegInit ==
    /\ fan_list = [i \in {0} |-> 0]
    /\ reg_call = [index |-> 0, fan |-> 0, raised |-> "none"]

Init ==
    /\ FanInit
    /\ PrimaryFan
    /\ max_power \in MaxPowers
    /\ kick_start_time \in KickStartTimes
    /\ off_below \in OffBelows
    /\ NoTach
    /\ NoTemperatureFan
    /\ RegInit

Next == SetSpeed \/ Restart

Spec == Init /\ [][Next]_vars

\* A fan with an enable pin whose callers request no negative duty
InitPin == Init /\ enable_pin

NextPin == SetSpeedNonNegative \/ Restart

SpecPin == InitPin /\ [][NextPin]_vars

\* A fan with a tachometer_pin: fan.py 154-165 and 169-181
InitTach ==
    /\ FanInit
    /\ PrimaryFan
    /\ max_power = Unit
    /\ kick_start_time = FAN_MIN_TIME
    /\ off_below \in OffBelows
    /\ has_tach = TRUE
    /\ ppr \in Pulses
    /\ tach_loss_interval \in LossIntervals
    /\ tach_loss_action \in {"shutdown", "warning", "none"}
    /\ warning_repeat_interval \in RepeatIntervals
    /\ tach_loss_time = None
    /\ last_warning_time = 0
    /\ warning_issued = FALSE
    /\ invoked = FALSE
    /\ warned = FALSE
    /\ is_shutdown = FALSE
    /\ stall_since = None
    /\ clock = 0
    /\ RegInit
    /\ NoTemperatureFan

NextTach == SetSpeedFromCommand \/ LookaheadCallback \/ GetStatus

SpecTach == InitTach /\ [][NextTach]_vars

InitReg ==
    /\ FanInit
    /\ PrimaryFan
    /\ max_power = Unit
    /\ kick_start_time = FAN_MIN_TIME
    /\ off_below = 0
    /\ NoTach
    /\ NoTemperatureFan
    /\ RegInit

NextReg == AddFan

SpecReg == InitReg /\ [][NextReg]_vars

\* The fans the speed commands reach, after klippy:connect (fan.py 58-68): the fan
\* of [fan], or the fan of a fan_generic section with or without a slicer_fan_number
ConnectedFans ==
    {[section |-> "fan", number |-> None],
     [section |-> "fan_generic", number |-> None],
     [section |-> "fan_generic", number |-> 1]}

InitCmd ==
    /\ FanInit
    /\ \E f \in ConnectedFans :
          /\ owner = f.section
          /\ slicer_fan_num = f.number
          /\ fan_list = IF f.number = None
                        THEN [i \in {0} |-> 0]
                        ELSE AddFanList([i \in {0} |-> 0], f.number, SelfId(f.section))
    /\ reg_call = [index |-> 0, fan |-> 0, raised |-> "none"]
    /\ max_power \in MaxPowers
    /\ kick_start_time = FAN_MIN_TIME
    /\ off_below = 0
    /\ NoTach
    /\ NoTemperatureFan

NextCmd == CmdM106 \/ CmdM107 \/ CmdSetFanSpeed \/ LookaheadCallback

SpecCmd == InitCmd /\ [][NextCmd]_vars

\* A [temperature_fan] section before its constructor runs, in a printer with [fan]
InitTemp ==
    /\ FanInit
    /\ ~enable_pin
    /\ owner = "temperature_fan"
    /\ slicer_fan_num \in SlicerNumbers
    /\ max_power = Unit
    /\ kick_start_time = FAN_MIN_TIME
    /\ off_below = 0
    /\ NoTach
    /\ RegInit
    /\ control \in {"watermark", "pid", "slope"}
    /\ pid_Ki \in IF control = "pid" THEN PidKis ELSE {None}
    /\ slope \in IF control = "slope" THEN SlopeAlgos ELSE {"none"}
    /\ min_temp_cutoff \in IF control = "slope" THEN SlopeCutoffs ELSE Cutoffs
    /\ \E c \in SpeedConfs : min_speed_conf = c[1] /\ max_speed_conf = c[2]
    /\ built = "new"
    /\ target_temp = None
    /\ last_temp = None
    /\ next_speed_time = None
    /\ last_speed_value = None
    /\ min_speed = None
    /\ max_speed = None
    /\ heating = FALSE
    /\ prev_temp = None
    /\ prev_temp_time = None
    /\ prev_temp_deriv = None
    /\ prev_temp_integ = None
    /\ temp_integ_max = None
    /\ raised = "none"
    /\ req = None
    /\ fwd = None

NextTemp ==
    \/ Construct
    \/ Connect
    \/ TemperatureCallback
    \/ CmdSetTemperatureFanTarget
    \/ DirectSetFanSpeed
    \/ DirectLookaheadCallback

SpecTemp == InitTemp /\ [][NextTemp]_vars

(***************************************************************************)
(* Claims about Fan.set_speed, checked under Spec                          *)
(***************************************************************************)
IsSetSpeed(c) == c.op = "set_speed"

PwmOf(cmds) == SelectSeq(cmds, LAMBDA c : c.pin = "pwm")

\* Every two neighbouring commands of a sequence are at least FAN_MIN_TIME apart.
Spaced(cmds) ==
    \A i \in 1 .. Len(cmds) - 1 : cmds[i + 1].time - cmds[i].time >= FAN_MIN_TIME

\* C1 as claimed: any two consecutive emitted hardware commands (enable-pin and PWM
\* commands, the kick-start pulse and the final command of one call included) have
\* scheduled times at least FAN_MIN_TIME apart.
C1_AllCommandsSpaced ==
    [][out' /= <<>> =>
          /\ sent /= None => out'[1].time - sent >= FAN_MIN_TIME
          /\ Spaced(out')]_vars

\* C1 as amended: the first command of a call is at least FAN_MIN_TIME after the latest
\* command of the calls before it; within one call the enable-pin command carries the
\* time of the first PWM command, and the final command follows the kick-start pulse
\* by exactly kick_start_time.
C1_CallsSpaced ==
    [][out' /= <<>> =>
          /\ sent /= None => out'[1].time - sent >= FAN_MIN_TIME
          /\ \A i \in 1 .. Len(out') - 1 :
                IF out'[i].pin = "enable"
                THEN out'[i + 1].time = out'[i].time
                ELSE out'[i + 1].time - out'[i].time = kick_start_time]_vars

\* C1 witness: a call held back by the spacing emits enable, kick-start pulse and final
\* command, the last two less than FAN_MIN_TIME apart.
C1_Witness ==
    /\ Len(out) = 3
    /\ out[1].time > call.time
    /\ out[1].time >= 2 * FAN_MIN_TIME
    /\ out[2].time = out[1].time
    /\ out[3].time - out[2].time < FAN_MIN_TIME

\* C5: a set_speed call whose value equals last_fan_value emits no command and leaves
\* last_fan_value and last_fan_time (and so the hardware) as they were, whatever its
\* time.
C5_SameValueIsNoOp ==
    [][(IsSetSpeed(call') /\ call'.value = last_fan_value) =>
          /\ out' = <<>>
          /\ UNCHANGED <<last_fan_value, last_fan_time, sent>>]_vars

\* C5 witness: a call repeating a nonzero value, at a time the spacing would allow a
\* command, has emitted nothing.
C5_Witness ==
    /\ IsSetSpeed(call)
    /\ call.value = last_fan_value
    /\ call.value > 0
    /\ call.time >= last_fan_time + FAN_MIN_TIME
    /\ out = <<>>

\* The duty the claim C6 states for a fan without enable pin.
ThreeWireDuty(duty, maxp) ==
    IF 200 + (800 * duty) \div Unit <= 200
    THEN 0
    ELSE Max(0, Min(maxp, ((200 + (800 * duty) \div Unit) * maxp) \div Unit))

\* C6 as claimed: on a fan without enable pin, for a requested duty in [0,1] and any
\* off_below and max_power, the final duty is 0 when 0.2+0.8*duty <= 0.2 and
\* clamp((0.2+0.8*duty)*max_power, 0, max_power) otherwise.
C6_ThreeWireDuty ==
    (IsSetSpeed(call) /\ ~pwm_fan /\ call.value \in 0 .. Unit /\ out /= <<>>)
        => out[Len(out)].value = ThreeWireDuty(call.value, max_power)

\* C6 as amended: the final duty is 0 also when the requested duty is below off_below.
C6_ThreeWireDutyOffBelow ==
    (IsSetSpeed(call) /\ ~pwm_fan /\ call.value \in 0 .. Unit /\ out /= <<>>)
        => out[Len(out)].value =
              IF call.value < off_below
              THEN 0
              ELSE ThreeWireDuty(call.value, max_power)

\* C6 witness: on a fan without enable pin a positive duty below off_below was sent
\* as 0.
C6_Witness ==
    /\ IsSetSpeed(call)
    /\ ~pwm_fan
    /\ out /= <<>>
    /\ call.value > 0
    /\ call.value < off_below
    /\ out[Len(out)].value = 0

\* C7: a call that is not suppressed emits the full-power pulse at the scheduled time
\* and the final duty kick_start_time later exactly when the final duty is > 0 and
\* < max_power, kick_start_time > 0 and (last_fan_value = 0 or final duty -
\* last_fan_value > 0.5); otherwise the final duty is its only PWM command, at the
\* scheduled time.  Either way last_fan_time becomes the final command's time and
\* last_fan_value the requested duty.
C7_KickStart ==
    [][(IsSetSpeed(call') /\ call'.value /= last_fan_value) =>
          LET pwm == PwmOf(out')
              scheduled == Max(call'.time, last_fan_time + FAN_MIN_TIME)
              effective == out'[Len(out')].value
              kick == /\ effective > 0
                      /\ effective < max_power
                      /\ kick_start_time > 0
                      /\ (last_fan_value = 0 \/ effective - last_fan_value > 500)
          IN  /\ out'[Len(out')].pin = "pwm"
              /\ IF kick
                 THEN /\ Len(pwm) = 2
                      /\ pwm[1].time = scheduled
                      /\ pwm[1].value = max_power
                      /\ pwm[2].time = scheduled + kick_start_time
                 ELSE /\ Len(pwm) = 1
                      /\ pwm[1].time = scheduled
              /\ last_fan_time' = out'[Len(out')].time
              /\ last_fan_value' = call'.value]_vars

\* C7 witness: a kick-start on a fan that was already running (the jump is more than
\* 0.5), the final command kick_start_time after the pulse.
C7_Witness ==
    /\ IsSetSpeed(call)
    /\ Len(out) = 2
    /\ out[1].pin = "pwm"
    /\ out[1].value = max_power
    /\ out[2].time = out[1].time + kick_start_time
    /\ out[2].value < max_power
    /\ last_fan_value = call.value
    /\ last_fan_time = out[2].time
    /\ enable_pin

\* C8: every PWM duty handed to the hardware lies in [0, max_power].
C8_DutyInRange ==
    \A i \in 1 .. Len(out) :
        out[i].pin = "pwm" => (out[i].value >= 0 /\ out[i].value <= max_power)

\* C8 witness: a requested duty above 1 was sent as max_power.
C8_Witness ==
    /\ IsSetSpeed(call)
    /\ call.value > Unit
    /\ out /= <<>>
    /\ out[Len(out)].value = max_power

(***************************************************************************)
(* Claims about FanTachometer, checked under SpecTach                      *)
(***************************************************************************)
IsSample(c) == c.op = "get_status"

\* The sample c reads no rotation.
ZeroRpm(c) == Rpm(c.value, ppr) = 0

\* C2 as claimed: while the fan is commanded on and every sample reads RPM 0, the
\* fault action is invoked once; a further zero-RPM sample of the same stall does not
\* invoke it again.  (Stated for a machine that has not been shut down, and for two
\* samples with no speed change between them.)
C2_FaultInvokedOnce ==
    [][(/\ ~is_shutdown
        /\ IsSample(call) /\ invoked
        /\ IsSample(call') /\ ZeroRpm(call') /\ last_fan_value > 0) => ~invoked']_vars

\* C2 as amended: a zero-RPM sample of a fan commanded on invokes the fault action
\* exactly when an earlier sample recorded the loss and that was more than
\* tach_loss_interval ago; every such sample does, and a sample exactly
\* tach_loss_interval after the loss was recorded does not.
C2_FaultInvokedEachSample ==
    [][IsSample(call') =>
          (invoked' <=> /\ ZeroRpm(call')
                        /\ last_fan_value > 0
                        /\ tach_loss_time /= None
                        /\ call'.time - tach_loss_time > tach_loss_interval)]_vars

\* C2 witness: the fault action was invoked on a sample although a warning of the same
\* stall, less than the repeat interval ago, shows it was invoked before.
C2_Witness ==
    /\ IsSample(call)
    /\ invoked
    /\ tach_loss_action = "warning"
    /\ ~warned
    /\ Truthy(last_warning_time)
    /\ last_warning_time > tach_loss_time

\* C3 as claimed: a warning is written on a fault sample only if none was written
\* before, or warning_repeat_interval is not 0 and the last one is at least
\* warning_repeat_interval ago; and last_warning_time becomes the sample's time.
C3_WarningRepeat ==
    [][(IsSample(call') /\ warned') =>
          /\ \/ last_warning_time = 0
             \/ /\ warning_repeat_interval /= 0
                /\ call'.time - last_warning_time >= warning_repeat_interval
          /\ last_warning_time' = call'.time]_vars

\* C4 as claimed: after a sample, tach_loss_time is None whenever the sample read a
\* nonzero RPM or the fan is off.
C4_LossTimeCleared ==
    (has_tach /\ IsSample(call) /\ (~ZeroRpm(call) \/ last_fan_value = 0))
        => tach_loss_time = None

\* C9: a sample taken while last_fan_value is 0 invokes no fault action, writes no
\* warning, shuts nothing down and does not set tach_loss_time to a new time.
C9_NoFaultWhileOff ==
    [][(IsSample(call') /\ last_fan_value = 0) =>
          /\ ~invoked'
          /\ ~warned'
          /\ is_shutdown' = is_shutdown
          /\ last_warning_time' = last_warning_time
          /\ tach_loss_time' \in {tach_loss_time, None}]_vars

\* C9 witness: a zero-RPM sample of a fan that is off, long after a loss was recorded
\* while it ran, has invoked nothing.
C9_Witness ==
    /\ IsSample(call)
    /\ ZeroRpm(call)
    /\ last_fan_value = 0
    /\ tach_loss_time /= None
    /\ call.time - tach_loss_time > tach_loss_interval
    /\ ~invoked
    /\ ~is_shutdown

(***************************************************************************)
(* Claims about PrinterFan.add_fan, checked under SpecReg                  *)
(***************************************************************************)
\* C10: index 0 stays the primary fan and every registered index keeps the fan first
\* registered under it; add_fan with index 0 or a used index raises a configuration
\* error and leaves fan_list as it was, and with a free index it registers the fan.
C10_Registry ==
    [][/\ 0 \in DOMAIN fan_list' /\ fan_list'[0] = 0
       /\ \A i \in DOMAIN fan_list : i \in DOMAIN fan_list' /\ fan_list'[i] = fan_list[i]
       /\ IF reg_call'.index \in DOMAIN fan_list
          THEN /\ reg_call'.raised = IF reg_call'.index = 0 THEN "reserved" ELSE "duplicate"
               /\ fan_list' = fan_list
          ELSE /\ reg_call'.raised = "none"
               /\ DOMAIN fan_list' = DOMAIN fan_list \cup {reg_call'.index}
               /\ fan_list'[reg_call'.index] = reg_call'.fan]_vars

\* C10 witness: an index already taken by one fan was requested for another and
\* rejected, after an attempt on index 0 would also have been.
C10_Witness ==
    /\ reg_call.raised = "duplicate"
    /\ reg_call.index \in DOMAIN fan_list
    /\ fan_list[reg_call.index] /= reg_call.fan
    /\ fan_list[0] = 0
    /\ Cardinality(DOMAIN fan_list) = MaxIndex + 1

(***************************************************************************)
(* Claims about the restart handler and the enable pin                     *)
(***************************************************************************)
IsRestart(c) == c.op = "restart"

\* C16: after the restart handler last_fan_value is 0 and the latest PWM duty handed
\* to the hardware, if there is one, is 0; a command the handler emits is scheduled
\* no earlier than last_fan_time + FAN_MIN_TIME, and it emits none when the fan is
\* already at duty 0.
C16_RestartForcesZero ==
    [][IsRestart(call') =>
          /\ last_fan_value' = 0
          /\ hw_duty' /= None => hw_duty' = 0
          /\ \A i \in 1 .. Len(out') :
                /\ out'[i].time >= last_fan_time + FAN_MIN_TIME
                /\ out'[i].time >= call'.time
                /\ out'[i].value = 0
          /\ last_fan_value = 0 => (out' = <<>> /\ UNCHANGED <<last_fan_time, sink>>)
          /\ last_fan_value /= 0 => out' /= <<>>]_vars

\* C16 witness: a restart of a running fan without enable pin, held back by the
\* spacing, has sent duty 0.
C16_Witness ==
    /\ IsRestart(call)
    /\ ~enable_pin
    /\ Len(out) = 1
    /\ out[1].time > call.time
    /\ out[1].time >= 2 * FAN_MIN_TIME
    /\ hw_duty = 0
    /\ last_fan_value = 0

\* C19 (checked under SpecPin: an enable pin, duties >= 0): the pin is high exactly
\* when last_fan_value > 0; an enable command is high only on a change of the
\* requested duty from zero to nonzero and low only on a change from nonzero to zero;
\* and a nonzero PWM duty comes after, and is scheduled no earlier than, the high
\* command of its call, with the pin high.
C19_EnablePin ==
    [][/\ pin_level' = 1 <=> last_fan_value' > 0
       /\ \A i \in 1 .. Len(out') :
             out'[i].pin = "enable" =>
                IF out'[i].value = 1
                THEN last_fan_value = 0 /\ last_fan_value' > 0
                ELSE last_fan_value > 0 /\ last_fan_value' = 0
       /\ \A j \in 1 .. Len(out') :
             (out'[j].pin = "pwm" /\ out'[j].value > 0) =>
                /\ pin_level' = 1
                /\ \A i \in 1 .. Len(out') :
                      out'[i].pin = "enable" => (i < j /\ out'[i].time <= out'[j].time)]_vars

\* C19 witness: the pin was raised, then lowered, and is raised again by a call that
\* emits the high command, the kick-start pulse and the final duty.
C19_Witness ==
    /\ IsSetSpeed(call)
    /\ Len(out) = 3
    /\ out[1] = [pin |-> "enable", time |-> out[2].time, value |-> 1]
    /\ out[1].time >= 3 * FAN_MIN_TIME
    /\ out[3].value > 0
    /\ pin_level = 1
    /\ last_fan_value > 0

(***************************************************************************)
(* Claims about the continuity of the stall period                         *)
(***************************************************************************)
\* C20: a sample invokes the fault action only when the fan is commanded on and every
\* sample for more than tach_loss_interval up to it has read zero RPM with the fan on,
\* a period the fan spent commanded off in between ending the run.
C20_ContinuousStall ==
    (IsSample(call) /\ invoked) =>
        /\ last_fan_value > 0
        /\ stall_since /= None
        /\ call.time - stall_since > tach_loss_interval

(***************************************************************************)
(* Claims about the speed commands, checked under SpecCmd                  *)
(***************************************************************************)
\* C17: after any sequence of M106, M107 and SET_FAN_SPEED commands and of the
\* lookahead callbacks they register, last_fan_value, the 'speed' of get_status, lies
\* in [0, 1].
C17_LastValueInRange == 0 <= last_fan_value /\ last_fan_value <= Unit

(***************************************************************************)
(* Claims about TemperatureFan, checked under SpecTemp                     *)
(***************************************************************************)
IsTempSample(c) == c.op = "sample"

IsTargetCommand(c) == c.op = "target"

IsConstruct(c) == c.op = "construct"

\* C11: a SET_TEMPERATURE_FAN_TARGET request that is rejected leaves target_temp,
\* min_speed, max_speed and the state of the actuator as they were.
C11_RejectedLeavesState ==
    [][(IsTargetCommand(call') /\ raised' = "command_error") =>
          UNCHANGED <<target_temp, min_speed, max_speed, fan_state, sink>>]_vars

\* C12 as claimed: on a sample of the bang-bang controller the fan turns on only if
\* temp >= target + max_delta and turns off only if temp <= target - max_delta; a
\* sample strictly inside the band never switches it.
C12_SwitchesOnlyAtThresholds ==
    [][(control = "watermark" /\ IsTempSample(call')) =>
          /\ (last_fan_value = 0 /\ last_fan_value' > 0) =>
                last_temp' >= target_temp + max_delta
          /\ (last_fan_value > 0 /\ last_fan_value' = 0) =>
                last_temp' <= target_temp - max_delta]_vars

\* C12 as the code has it: the heating flag starts as not heating; a sample at or
\* above min_temp_cutoff sets a clear flag exactly when temp <= target - max_delta and
\* clears a set flag exactly when temp >= target + max_delta, and a sample below the
\* cutoff keeps the flag; a sample requests 0 when it is below the cutoff or the flag
\* is set after it, max_speed otherwise.  A sample at or above the cutoff that finds
\* the flag clear, as the first one does, therefore requests max_speed when
\* temp > target - max_delta, also inside the band, and 0 when
\* temp <= target - max_delta.
C12_HeatingFlagHysteresis ==
    [][/\ (control = "watermark" /\ IsConstruct(call')) => ~heating'
       /\ (control = "watermark" /\ IsTempSample(call')) =>
             /\ (~heating /\ heating') <=>
                   /\ ~heating
                   /\ last_temp' >= min_temp_cutoff
                   /\ last_temp' <= target_temp - max_delta
             /\ (heating /\ ~heating') <=>
                   /\ heating
                   /\ last_temp' >= min_temp_cutoff
                   /\ last_temp' >= target_temp + max_delta
             /\ req' = IF last_temp' < min_temp_cutoff \/ heating'
                       THEN 0
                       ELSE max_speed
             /\ (~heating /\ last_temp' >= min_temp_cutoff) =>
                   req' = IF last_temp' <= target_temp - max_delta
                          THEN 0
                          ELSE max_speed]_vars

\* C12 witness: a sample at or below target - max_delta has set the flag and switched
\* off the fan that ran since the first sample.
C12_Witness ==
    /\ control = "watermark"
    /\ IsTempSample(call)
    /\ heating
    /\ last_temp <= target_temp - max_delta
    /\ last_temp >= min_temp_cutoff
    /\ req = 0
    /\ fwd = 0
    /\ hw_duty = 0
    /\ last_fan_value = 0

C15_SingleWriter ==
    [][owner = "temperature_fan" =>
          /\ \A i \in DOMAIN fan_list' : fan_list'[i] /= SelfId(owner)
          /\ call'.op \notin {"SET_FAN_SPEED", "M106", "M107", "set_speed"}]_vars

\* C18: every speed a controller's sample forwards to the actuator is 0 or lies
\* within the min_speed and max_speed of the moment.
C18_ForwardedWithinBounds ==
    [][(IsTempSample(call') /\ fwd' /= None) =>
          \/ fwd' = 0
          \/ min_speed' <= fwd' /\ fwd' <= max_speed']_vars

\* C21: a sample below min_temp_cutoff requests speed 0 and leaves the controller's
\* memory as it was: the heating flag of the bang-bang controller, and prev_temp,
\* prev_temp_time, prev_temp_deriv and prev_temp_integ of the PID controller.
C21_CutoffKeepsMemory ==
    [][(IsTempSample(call') /\ last_temp' < min_temp_cutoff) =>
          /\ req' = 0
          /\ UNCHANGED control_state]_vars

\* C21 witness: the bang-bang controller is heating, having seen a sample at or below
\* target - max_delta, and a sample below the cutoff has requested 0 with the fan off.
C21_Witness ==
    /\ control = "watermark"
    /\ IsTempSample(call)
    /\ last_temp < min_temp_cutoff
    /\ heating
    /\ req = 0
    /\ last_fan_value = 0

\* C22: with min_speed <= max_speed in the config, a connected temperature fan keeps
\* its target within [min_temp, max_temp] and 0 <= min_speed <= max_speed <= 1
\* through every command and sample.
C22_BoundsKept ==
    (built = "connected" /\ min_speed_conf <= max_speed_conf) =>
        /\ min_temp <= target_temp
        /\ target_temp <= max_temp
        /\ 0 <= min_speed
        /\ min_speed <= max_speed
        /\ max_speed <= Unit

\* C23: a zero-RPM sample taken while the duty last sent to the hardware is 0, be it
\* for a requested duty below off_below, leads to no warning and no shutdown.
C23_NoFaultWhileNotDriven ==
    [][(IsSample(call') /\ ZeroRpm(call') /\ hw_duty \in {0, None}) =>
          /\ ~warned'
          /\ is_shutdown' = is_shutdown]_vars

\* C24: no constructor of a temperature fan, whatever its controller, fails on a
\* field that is not yet initialized.
C24_InitOrderSound == raised /= "AttributeError"

====
